---- MODULE Spec2Model ----
(***************************************************************************)
(* Request pipeline and lifecycle controller of the Nexus Sentinel service *)
(* (src/src/server.ts).  One state machine: the HTTP connections of the    *)
(* listening socket, the request each of them is serving and its position  *)
(* in the middleware chain, the rate-limit stores of the two limiter       *)
(* classes, the duration histogram, and the shutdown machinery (grace      *)
(* timers, server.close callbacks, process exit).                          *)
(* Time is counted in units of 30 seconds.                                 *)
(***************************************************************************)
EXTENDS Integers, Sequences, FiniteSets, TLC

\* ---------------------------------------------------------------- bounds
NumConns    == 1   \* connections the clients may hold open
MaxTime     == 2   \* last clock value explored
MaxRequests == 3   \* requests received over a run
MaxCeiling  == 2   \* largest configured per-minute ceiling
MaxSignals  == 2   \* termination signals delivered over a run
MaxHeader   == 2   \* longest x-request-id value a client sends
MaxDigits   == 2   \* longest value of a numeric environment variable

\* ------------------------------------------------------ program constants
WindowMs == 2      \* windowMs: 60 * 1000 ms
GraceMs  == 1      \* setTimeout(..., 30_000)
NaN      == -999999  \* Number() of a string that is no number (outside the
                     \* integers a value of MaxDigits characters can denote)

VARIABLES
    cfg,        \* configuration snapshot (env, rateLimit ceilings)
    closesIdle, \* whether this runtime's server.close() also closes idle connections
    now,        \* Date.now()
    conns,      \* connection -> "closed" | "idle" | "busy"
    req,        \* connection -> the request it is serving (NoReq if none)
    nreq,       \* requests received so far
    store,      \* <<class, client>> -> window record of the limiter's memory store
    seen,       \* <<class, client>> -> the fixed window the contract prescribes
    hist,       \* label tuple -> number of observations (httpRequestDurationMs)
    listening,  \* the server still has its listening handle
    pending,    \* one entry per shutdown() call: its timer and its close callback
    exitCode,   \* NotExited, or the status given to process.exit
    exitBy,     \* which process.exit call ended the process
    drained     \* responses written for requests in flight at the first signal

vars == <<cfg, closesIdle, now, conns, req, nreq, store, seen, hist,
          listening, pending, exitCode, exitBy, drained>>

Conns   == 1..NumConns
Clients == {"a", "b"}
Classes == {"global", "auth"}
Envs    == {"production", "development", "test"}

Config(e, g, a) ==
    [env |-> e, rateLimit |-> [globalPerMin |-> g, authPerMin |-> a]]

\* ------------------------------------------------------- getConfig
\* An environment variable: unset, or set to a value.
NoVar == [set |-> FALSE, value |-> <<>>]

Var(v) == [set |-> TRUE, value |-> v]

\* process.env with none of the variables getConfig reads.
NoEnviron ==
    [NODE_ENV |-> NoVar, RATE_LIMIT_DEFAULT_PER_MIN |-> NoVar,
     RATE_LIMIT_PER_MINUTE |-> NoVar, RATE_LIMIT_AUTH_PER_MIN |-> NoVar,
     RATE_LIMIT_AUTHZ_PER_MINUTE |-> NoVar, PORT |-> NoVar]

\* Values of NODE_ENV: unset, empty, a tier name, another string.
Tiers ==
    { NoVar, Var(""), Var("production"), Var("development"), Var("test"),
      Var("staging") }

NumericVars ==
    { "RATE_LIMIT_DEFAULT_PER_MIN", "RATE_LIMIT_PER_MINUTE",
      "RATE_LIMIT_AUTH_PER_MIN", "RATE_LIMIT_AUTHZ_PER_MINUTE", "PORT" }

\* Values of a numeric variable: unset, or a string of these characters.
NumChars == {"1", "-", "a"}

Numerals ==
    {NoVar} \cup { Var(v) : v \in UNION { [1..n -> NumChars] : n \in 0..MaxDigits } }

\* The environments explored: every value of NODE_ENV, with every value of
\* one numeric variable.
Environs ==
    { [NoEnviron EXCEPT !.NODE_ENV = t, ![k] = v] :
        t \in Tiers, k \in NumericVars, v \in Numerals }

IsDigits(v) == v # <<>> /\ \A i \in DOMAIN v : v[i] = "1"

RECURSIVE Decimal(_)
Decimal(v) == IF v = <<>> THEN 0 ELSE 10 * Decimal(SubSeq(v, 1, Len(v) - 1)) + 1

\* Number(string): "" is 0, a decimal numeral with or without a sign is its
\* value, anything else is NaN.
Number(v) ==
    IF v = <<>> THEN 0
    ELSE IF IsDigits(v) THEN Decimal(v)
    ELSE IF Head(v) = "-" /\ IsDigits(Tail(v)) THEN 0 - Decimal(Tail(v))
    ELSE NaN

\* a ?? b
Coalesce(a, b) == IF a.set THEN a ELSE b

\* getConfig() in the environment e.
GetConfig(e) ==
    LET env == IF e.NODE_ENV.set /\ e.NODE_ENV.value # ""
               THEN e.NODE_ENV.value ELSE "development"
        isProd == env = "production"
        isDev == env = "development"
        isTest == env = "test"
        rateDefaultEnv == Coalesce(e.RATE_LIMIT_DEFAULT_PER_MIN,
                                   e.RATE_LIMIT_PER_MINUTE)
        rateAuthEnv == Coalesce(e.RATE_LIMIT_AUTH_PER_MIN,
                                e.RATE_LIMIT_AUTHZ_PER_MINUTE)
        rateLimitDefault ==
            IF rateDefaultEnv.set THEN Number(rateDefaultEnv.value)
            ELSE IF isProd THEN 100 ELSE IF isDev THEN 1000 ELSE 0
        rateLimitAuth ==
            IF rateAuthEnv.set THEN Number(rateAuthEnv.value)
            ELSE IF isProd THEN 10 ELSE IF isDev THEN 0 ELSE 0
        port == IF e.PORT.set THEN Number(e.PORT.value) ELSE NaN
    IN  [env |-> env,
         port |-> IF port = NaN \/ port = 0 THEN 200 ELSE port,
         rateLimit |-> [globalPerMin |-> rateLimitDefault,
                        authPerMin |-> rateLimitAuth],
         security |-> [enableHelmet |-> ~isTest, enableCSP |-> isProd,
                       enableHSTS |-> isProd]]

\* Configurations explored, after the tier defaults of getConfig: both
\* limiters on (production), the global one only (development), none (test),
\* and the auth one only (an override).
Configs ==
    { Config("production", MaxCeiling, 1), Config("development", MaxCeiling, 0),
      Config("test", 0, 0), Config("test", 0, 1) }

\* Header values are strings over these characters.
Chars == {" ", "x"}

WhiteSpace == {" "}

\* The x-request-id header of a request: absent, or present with a value.
NoHeader == [present |-> FALSE, value |-> <<>>]

Header(v) == [present |-> TRUE, value |-> v]

Strings == UNION { [1..n -> Chars] : n \in 0..MaxHeader }

Headers == {NoHeader} \cup { Header(v) : v \in Strings }

\* A request whose handler does not fail and which carries the
\* x-request-id "x" of its client.
Plain(m, p, b) ==
    [method |-> m, path |-> p, bodyOk |-> b, incoming |-> Header(<<"x">>),
     throws |-> "none"]

\* Requests the clients send: a registered route, the two auth mount paths
\* (no route is registered under them), a malformed body, a preflight.
Requests ==
    { Plain("GET", "/version", TRUE),
      Plain("GET", "/login", TRUE),
      Plain("POST", "/auth", TRUE),
      Plain("POST", "/version", FALSE),
      Plain("OPTIONS", "/login", TRUE) }

\* Requests that exercise the correlation middleware: every header value, on
\* a registered route and on an unregistered one.
Correlated ==
    { [Plain("GET", p, TRUE) EXCEPT !.incoming = h] :
        p \in {"/version", "/nope"}, h \in Headers }

\* What a route handler does with a request: it answers ("none"), or fails
\* with an error that declares no status ("error") or status 418 ("teapot").
Throws == {"none", "error", "teapot"}

\* Requests that exercise the not-found and the error handler: a served
\* one, an unregistered path, a body the parser refuses and a failing route
\* handler; the unregistered path and the refused body also without an
\* x-request-id.
Faults ==
    { [Plain("GET", "/version", TRUE) EXCEPT !.throws = t] : t \in Throws }
    \cup
    { [q EXCEPT !.incoming = h] :
        q \in { Plain("GET", "/nope", TRUE), Plain("POST", "/version", FALSE) },
        h \in { NoHeader, Header(<<"x">>) } }

NotExited == -1

\* The address a connection comes from (req.ip, the limiter's key).
ClientOf(c) == IF c % 2 = 1 THEN "a" ELSE "b"

\* ------------------------------------------------------------ the pipeline
\* Routes registered with app.get.
Routes == {"/version", "/healthz", "/readyz", "/metrics", "/"}

\* Mount paths of the auth limiter.
AuthRoutes == {"/auth", "/login"}

IsAuthRoute(path) == path \in AuthRoutes

EnableHelmet(config) == config.env # "test"

\* The requests the lifecycle controller is exercised with: one served by a
\* route, one failed by the body parser.
Probes ==
    { Plain("GET", "/version", TRUE), Plain("POST", "/version", FALSE) }

\* No identifier (undefined).
NoId == <<>>

\* A response body without requestId and stack fields.
NoBody == [requestId |-> NoId, stack |-> FALSE]

NoReq == [method |-> "-", path |-> "-", bodyOk |-> TRUE, pc |-> "none",
          status |-> 0, err |-> 0, trace |-> <<>>, limitedBy |-> "none",
          nth |-> [k \in Classes |-> 0], route |-> "", timed |-> FALSE,
          late |-> FALSE, atSignal |-> FALSE,
          incoming |-> NoHeader, throws |-> "none", requestId |-> NoId,
          resHeader |-> NoId, body |-> NoBody]

NoWindow == [hits |-> 0, resetTime |-> 0]

NoSeen == [start |-> 0, n |-> 0, admitted |-> 0, denied |-> 0]

\* ------------------------------------------------------------ rate limiter
\* Mutant: only a negative ceiling disables the limiter.
DisabledBelowZero(perMin) == perMin < 0

\* makeLimiter: a ceiling of 0 (or less) yields a pass-through middleware
\* (NaN <= 0 is false).
Disabled(perMin) == perMin # NaN /\ perMin <= 0

\* Mutant: a rolling window, every request pushes the expiry 60 s further.
IncrementRolling(w, t) ==
    IF w.hits = 0 \/ w.resetTime <= t
    THEN [hits |-> 1, resetTime |-> t + WindowMs]
    ELSE [hits |-> w.hits + 1, resetTime |-> t + WindowMs]

\* MemoryStore.increment: a missing or expired record starts a new window.
Increment(w, t) ==
    IF w.hits = 0 \/ w.resetTime <= t
    THEN [hits |-> 1, resetTime |-> t + WindowMs]
    ELSE [w EXCEPT !.hits = @ + 1]

\* Mutant: the request that reaches the limit is rejected already.
AdmitsBelow(hits, limit) == hits < limit

\* Mutant: one request over the limit is still admitted.
AdmitsOneMore(hits, limit) == hits <= limit + 1

\* The middleware rejects when the record's hits exceed the limit
\* (hits > NaN is false).
Admits(hits, limit) == limit = NaN \/ hits <= limit

Ceiling(class) ==
    IF class = "global" THEN cfg.rateLimit.globalPerMin
    ELSE cfg.rateLimit.authPerMin

\* ----------------------------------------------------------------- Init
\* The state the module's initialisation leaves, but for the configuration.
Boot ==
    /\ closesIdle \in BOOLEAN
    /\ now = 0
    /\ conns = [c \in Conns |-> "closed"]
    /\ req = [c \in Conns |-> NoReq]
    /\ nreq = 0
    /\ store = [k \in Classes \X Clients |-> NoWindow]
    /\ seen = [k \in Classes \X Clients |-> NoSeen]
    /\ hist = <<>>
    /\ listening = TRUE
    /\ pending = <<>>
    /\ exitCode = NotExited
    /\ exitBy = "none"
    /\ drained = 0

Init == cfg \in Configs /\ Boot

Alive == exitCode = NotExited

\* Lifecycle state of the controller, as the code's state determines it.
Lifecycle ==
    IF ~Alive THEN "Closed"
    ELSE IF listening THEN "Running" ELSE "ShuttingDown"

\* ------------------------------------------------------ middleware stages
\* Each stage maps a pipeline context [r, store, calls, now] (the request
\* and the limiter state it may touch) to the context it leaves behind.

\* The request after running `stage` and handing over to `next`.
Ran(r, stage, next) == [r EXCEPT !.trace = Append(@, stage), !.pc = next]

\* randomUUID(): the n-th identifier generated.
RandomUUID(n) == <<"uuid", ToString(n)>>

\* String.prototype.trim.
RECURSIVE TrimStart(_)
TrimStart(v) ==
    IF v # <<>> /\ Head(v) \in WhiteSpace THEN TrimStart(Tail(v)) ELSE v

RECURSIVE TrimEnd(_)
TrimEnd(v) ==
    IF v # <<>> /\ v[Len(v)] \in WhiteSpace
    THEN TrimEnd(SubSeq(v, 1, Len(v) - 1)) ELSE v

Trim(v) == TrimEnd(TrimStart(v))

\* Mutant: any non-empty header value is taken over, blank ones as well.
IdOfUntrimmed(incoming, n) ==
    IF incoming.present /\ Len(incoming.value) > 0
    THEN incoming.value ELSE RandomUUID(n)

\* incoming && incoming.trim().length > 0 ? incoming : randomUUID()
IdOf(incoming, n) ==
    IF incoming.present /\ Len(Trim(incoming.value)) > 0
    THEN incoming.value ELSE RandomUUID(n)

\* requestId: the id goes to the request and to the response header.
RequestId(x) ==
    LET id == IdOf(x.r.incoming, nreq + 1)
    IN  [x EXCEPT !.r = [Ran(@, "requestId", "logging") EXCEPT
                           !.requestId = id, !.resHeader = id]]

\* getRequestId(req)
GetRequestId(r) == r.requestId

Logging(x) == [x EXCEPT !.r = Ran(@, "logging", "bodyParse")]

\* express.json: a malformed body raises an error with status 400.
BodyParse(x) ==
    IF x.r.method = "POST" /\ ~x.r.bodyOk
    THEN [x EXCEPT !.r = [Ran(@, "bodyParse", "errorHandler") EXCEPT !.err = 400]]
    ELSE [x EXCEPT !.r = Ran(@, "bodyParse", "cors")]

\* Mutant: helmet is registered before cors.
HelmetThenCors(x) ==
    [x EXCEPT !.r = Ran(Ran(@, "helmet", "cors"), "cors", "globalLimiter")]

\* cors: a preflight (OPTIONS) request is answered with 204 by the stage itself.
Cors(x) ==
    IF x.r.method = "OPTIONS"
    THEN [x EXCEPT !.r = [Ran(@, "cors", "responded") EXCEPT !.status = 204]]
    ELSE [x EXCEPT !.r = Ran(@, "cors", IF EnableHelmet(cfg) THEN "helmet"
                                        ELSE "globalLimiter")]

Helmet(x) == [x EXCEPT !.r = Ran(@, "helmet", "globalLimiter")]

\* Mutant: the auth limiter is mounted on every path.
AfterGlobalEverywhere(path) == "authLimiter"

\* Stage following the global limiter: the auth limiter is mounted on the
\* auth routes only.
AfterGlobal(path) == IF IsAuthRoute(path) THEN "authLimiter" ELSE "metrics"

\* The contract's fixed window: a call with no window, or at or after 60 s
\* from the window's first call, opens a new one.  It counts the calls and
\* the admitted calls of the window, and the calls denied so far.
Counted(s, t, ok) ==
    IF s.n = 0 \/ t >= s.start + WindowMs
    THEN [start |-> t, n |-> 1, admitted |-> IF ok THEN 1 ELSE 0,
          denied |-> IF ok THEN s.denied ELSE s.denied + 1]
    ELSE [s EXCEPT !.n = @ + 1, !.admitted = IF ok THEN @ + 1 ELSE @,
                   !.denied = IF ok THEN @ ELSE @ + 1]

\* Mutant: the handler answers 429 and calls next() all the same.
RejectAndContinue(r, stage, class) ==
    [Ran(r, stage, "metrics") EXCEPT !.status = 429, !.limitedBy = class]

\* The limiter's handler for a request over the limit: 429, and no next().
Reject(r, stage, class) ==
    [Ran(r, stage, "responded") EXCEPT !.status = 429, !.limitedBy = class]

\* One limiter middleware of class `class`, registered as stage `stage`.
\* `seen` follows the same calls by the contract's fixed window, and the
\* request notes its place in that window.
Limiter(x, class, stage, next) ==
    LET k == <<class, x.client>>
        w == Increment(x.store[k], x.now)
        ok == Disabled(Ceiling(class)) \/ Admits(w.hits, Ceiling(class))
        s == Counted(x.seen[k], x.now, ok)
    IN  [x EXCEPT
           !.store = IF Disabled(Ceiling(class)) THEN @ ELSE [@ EXCEPT ![k] = w],
           !.seen = [@ EXCEPT ![k] = s],
           !.r = [(IF ok THEN Ran(@, stage, next) ELSE Reject(@, stage, class))
                    EXCEPT !.nth[class] = s.n]]

\* Mutant: the global limiter is not mounted on the auth routes, which have
\* a limiter of their own.
GlobalLimiterElsewhere(x) ==
    IF IsAuthRoute(x.r.path)
    THEN [x EXCEPT !.r = Ran(@, "globalLimiter", "authLimiter")]
    ELSE Limiter(x, "global", "globalLimiter", AfterGlobal(x.r.path))

GlobalLimiter(x) == Limiter(x, "global", "globalLimiter", AfterGlobal(x.r.path))

AuthLimiter(x) == Limiter(x, "auth", "authLimiter", "metrics")

\* Metrics middleware: takes the start time and subscribes to 'finish'.
Metrics(x) == [x EXCEPT !.r = [Ran(@, "metrics", "route") EXCEPT !.timed = TRUE]]

\* The app.get routes.  A handler that fails passes its error on; the
\* error declares a status or none (0).
Route(x) ==
    IF x.r.method = "GET" /\ x.r.path \in Routes
    THEN IF x.r.throws = "none"
         THEN [x EXCEPT !.r = [Ran(@, "route", "responded") EXCEPT
                                 !.status = 200, !.route = x.r.path]]
         ELSE [x EXCEPT !.r = [Ran(@, "route", "errorHandler") EXCEPT
                                 !.route = x.r.path,
                                 !.err = IF x.r.throws = "teapot" THEN 418 ELSE 0]]
    ELSE [x EXCEPT !.r = Ran(@, "route", "notFound")]

NotFound(x) ==
    [x EXCEPT !.r = [Ran(@, "notFound", "responded") EXCEPT
                       !.status = 404,
                       !.body = [requestId |-> GetRequestId(x.r),
                                 stack |-> FALSE]]]

\* Mutant: the stack is sent in the development tier only.
IsNotDevelopment(config) == config.env # "development"

IsProduction(config) == config.env = "production"

IsDevelopment(config) == config.env = "development"

IsTest(config) == config.env = "test"

\* Mutant: the error body repeats the client's header, not the request's id.
ErrorHandlerEchoesHeader(x) ==
    [x EXCEPT !.r = [Ran(@, "errorHandler", "responded") EXCEPT
                       !.status = IF x.r.err # 0 THEN x.r.err ELSE 500,
                       !.body = [requestId |-> x.r.incoming.value,
                                 stack |-> ~IsProduction(cfg)]]]

\* status = err.status || 500; the stack goes in the body unless the tier
\* is production.
ErrorHandler(x) ==
    [x EXCEPT !.r = [Ran(@, "errorHandler", "responded") EXCEPT
                       !.status = IF x.r.err # 0 THEN x.r.err ELSE 500,
                       !.body = [requestId |-> GetRequestId(x.r),
                                 stack |-> ~IsProduction(cfg)]]]

\* The stage the request stands at runs.
Stage(x) ==
    CASE x.r.pc = "requestId"     -> RequestId(x)
      [] x.r.pc = "logging"       -> Logging(x)
      [] x.r.pc = "bodyParse"     -> BodyParse(x)
      [] x.r.pc = "cors"          -> Cors(x)
      [] x.r.pc = "helmet"        -> Helmet(x)
      [] x.r.pc = "globalLimiter" -> GlobalLimiter(x)
      [] x.r.pc = "authLimiter"   -> AuthLimiter(x)
      [] x.r.pc = "metrics"       -> Metrics(x)
      [] x.r.pc = "route"         -> Route(x)
      [] x.r.pc = "notFound"      -> NotFound(x)
      [] x.r.pc = "errorHandler"  -> ErrorHandler(x)

\* The chain runs on, next() after next(), until a stage in `stops`.
RECURSIVE RunUntil(_, _)
RunUntil(x, stops) ==
    IF x.r.pc \in stops THEN x ELSE RunUntil(Stage(x), stops)

Context(c, r) ==
    [r |-> r, client |-> ClientOf(c), store |-> store, seen |-> seen,
     now |-> now]

\* ------------------------------------------------------- the environment
\* A client opens a connection; the listening socket accepts it.
Connect(c) ==
    /\ Alive
    /\ listening
    /\ conns[c] = "closed"
    /\ conns' = [conns EXCEPT ![c] = "idle"]
    /\ UNCHANGED <<cfg, closesIdle, now, req, nreq, store, seen, hist,
                   listening, pending, exitCode, exitBy, drained>>

\* A request arrives on an open connection: the chain runs up to the body
\* parser, which waits for the request body.
Arrive(c, q) ==
    /\ Alive
    /\ conns[c] = "idle"
    /\ nreq < MaxRequests
    /\ conns' = [conns EXCEPT ![c] = "busy"]
    /\ req' = [req EXCEPT ![c] =
                 RunUntil(Context(c, [NoReq EXCEPT !.method = q.method,
                                                   !.path = q.path,
                                                   !.bodyOk = q.bodyOk,
                                                   !.incoming = q.incoming,
                                                   !.throws = q.throws,
                                                   !.pc = "requestId",
                                                   !.late = ~listening]),
                          {"bodyParse"}).r]
    /\ nreq' = nreq + 1
    /\ UNCHANGED <<cfg, closesIdle, now, store, seen, hist,
                   listening, pending, exitCode, exitBy, drained>>

\* The body has been read: the chain runs on until a stage ends the response.
Process(c) ==
    /\ Alive
    /\ conns[c] = "busy"
    /\ req[c].pc = "bodyParse"
    /\ LET x == RunUntil(Context(c, req[c]), {"responded"})
       IN  /\ req' = [req EXCEPT ![c] = x.r]
           /\ store' = x.store
           /\ seen' = x.seen
    /\ UNCHANGED <<cfg, closesIdle, now, conns, nreq, hist,
                   listening, pending, exitCode, exitBy, drained>>

\* An idle keep-alive connection ends (keep-alive timeout, or the client).
Disconnect(c) ==
    /\ Alive
    /\ conns[c] = "idle"
    /\ conns' = [conns EXCEPT ![c] = "closed"]
    /\ UNCHANGED <<cfg, closesIdle, now, req, nreq, store, seen, hist,
                   listening, pending, exitCode, exitBy, drained>>

\* A timer that is due fires before the clock moves on.
Tick ==
    /\ Alive
    /\ now < MaxTime
    /\ \A i \in DOMAIN pending : pending[i].deadline > now
    /\ now' = now + 1
    /\ UNCHANGED <<cfg, closesIdle, conns, req, nreq, store, seen, hist,
                   listening, pending, exitCode, exitBy, drained>>

\* Labels of the observation: req.route?.path || req.path.
RouteLabel(r) == IF r.route # "" THEN r.route ELSE r.path

\* Mutant: the status label is taken when the timer starts (200 by default).
LabelsAtStart(r) == <<r.method, RouteLabel(r), 200>>

Labels(r) == <<r.method, RouteLabel(r), r.status>>

Observe(h, l) ==
    IF l \in DOMAIN h THEN [h EXCEPT ![l] = @ + 1] ELSE h @@ (l :> 1)

\* The response is fully written: 'finish' listeners run, and the connection
\* is kept alive or closed.
Finish(c, keep) ==
    /\ Alive
    /\ conns[c] = "busy"
    /\ req[c].pc = "responded"
    /\ req' = [req EXCEPT ![c] = NoReq]
    /\ hist' = IF req[c].timed THEN Observe(hist, Labels(req[c])) ELSE hist
    /\ conns' = [conns EXCEPT ![c] = IF keep THEN "idle" ELSE "closed"]
    /\ drained' = IF req[c].atSignal THEN drained + 1 ELSE drained
    /\ UNCHANGED <<cfg, closesIdle, now, nreq, store, seen,
                   listening, pending, exitCode, exitBy>>

\* ------------------------------------------------------------- shutdown
\* Mutant: server.close() closes every connection, busy ones included.
CloseAll(cs) == [c \in Conns |-> "closed"]

\* server.close() on a runtime that closes idle connections.
CloseIdle(cs) == [c \in Conns |-> IF cs[c] = "idle" THEN "closed" ELSE cs[c]]

\* shutdown(signal): start a grace timer, call server.close(callback).
\* Signals are delivered while the clock can still reach their deadline.
Shutdown ==
    /\ Alive
    /\ Len(pending) < MaxSignals
    /\ now + GraceMs <= MaxTime
    /\ pending' = Append(pending, [deadline |-> now + GraceMs,
                                   err |-> ~listening])
    /\ listening' = FALSE
    /\ conns' = IF closesIdle THEN CloseIdle(conns) ELSE conns
    /\ req' = [c \in Conns |->
                 IF listening /\ conns[c] = "busy"
                 THEN [req[c] EXCEPT !.atSignal = TRUE] ELSE req[c]]
    /\ UNCHANGED <<cfg, closesIdle, now, nreq, store, seen, hist,
                   exitCode, exitBy, drained>>

\* The close callback that runs when the server emits 'close'.
FirstCallback(cbs) == Head(cbs)

\* Mutant: the two exit statuses of the close callback are swapped.
CloseStatusSwapped(err) == IF err THEN 0 ELSE 1

\* Exit status the close callback passes to process.exit.
CloseStatus(err) == IF err THEN 1 ELSE 0

\* 'close': no listening handle and no connection left.  The callbacks run
\* in registration order and the first one ends the process.
ServerClosed ==
    /\ Alive
    /\ ~listening
    /\ \A c \in Conns : conns[c] = "closed"
    /\ pending # <<>>
    /\ exitCode' = CloseStatus(FirstCallback(pending).err)
    /\ exitBy' = IF FirstCallback(pending).err THEN "closeError" ELSE "clean"
    /\ UNCHANGED <<cfg, closesIdle, now, conns, req, nreq, store, seen, hist,
                   listening, pending, drained>>

\* Mutant: the grace timer does not keep the process going and never fires.
ForceExitCancelled == FALSE /\ UNCHANGED vars

\* A grace timer elapses: forced exit.
ForceExit ==
    /\ Alive
    /\ \E i \in DOMAIN pending : pending[i].deadline <= now
    /\ exitCode' = 1
    /\ exitBy' = "timeout"
    /\ UNCHANGED <<cfg, closesIdle, now, conns, req, nreq, store, seen, hist,
                   listening, pending, drained>>

\* What clients and the event loop do with connections and with the
\* requests received.
Exchange ==
    \/ \E c \in Conns : Connect(c)
    \/ \E c \in Conns : Process(c)
    \/ \E c \in Conns, keep \in BOOLEAN : Finish(c, keep)
    \/ \E c \in Conns : Disconnect(c)

\* The same, as time passes.
Run ==
    \/ Exchange
    \/ Tick

\* The pipeline while the service is Running: no signal is delivered.
Serve ==
    \/ \E c \in Conns, q \in Requests : Arrive(c, q)
    \/ Run

Signals ==
    \/ Shutdown
    \/ ServerClosed
    \/ ForceExit

Next ==
    \/ Serve
    \/ Signals

\* The lifecycle controller with the requests drawn from Probes.
Drain ==
    \/ \E c \in Conns, q \in Probes : Arrive(c, q)
    \/ Run
    \/ Signals

\* The whole machine.  Its two parts below are the ones explored.
Spec == Init /\ [][Next]_vars

\* The request pipeline under every configuration, up to the first signal.
PipelineInit == Init /\ ~closesIdle

PipelineSpec == PipelineInit /\ [][Serve]_vars

\* The lifecycle controller under the test tier's defaults (both limiters
\* disabled), on either kind of runtime.
LifecycleInit == Init /\ cfg = Config("test", 0, 0)

LifecycleSpec == LifecycleInit /\ [][Drain]_vars

\* The lifecycle controller with requests to one route, which clients may
\* leave in flight for ever.
Linger ==
    \/ \E c \in Conns : Arrive(c, Plain("GET", "/version", TRUE))
    \/ Run
    \/ Signals

\* The same on an event loop that lets time pass and runs the callback of a
\* timer that is due.
LifecycleLiveSpec ==
    LifecycleInit /\ [][Linger]_vars /\ WF_vars(Tick) /\ WF_vars(ForceExit)

\* The correlation middleware under every header value.
Correlate ==
    \/ \E c \in Conns, q \in Correlated : Arrive(c, q)
    \/ Exchange

CorrelationInit == LifecycleInit /\ ~closesIdle

CorrelationSpec == CorrelationInit /\ [][Correlate]_vars

\* The service booted in each environment explored, with requests to an
\* auth route, which pass both limiters.
Configure ==
    \/ \E c \in Conns : Arrive(c, Plain("GET", "/login", TRUE))
    \/ Exchange

ConfigInit == cfg \in { GetConfig(e) : e \in Environs } /\ Boot /\ ~closesIdle

ConfigSpec == ConfigInit /\ [][Configure]_vars

\* The not-found and the error handler under every configuration.
Handle ==
    \/ \E c \in Conns, q \in Faults : Arrive(c, q)
    \/ Exchange

HandlerSpec == PipelineInit /\ [][Handle]_vars

\* ------------------------------------------------------------ properties
InTrace(r, stage) == \E i \in DOMAIN r.trace : r.trace[i] = stage

Keys == Classes \X Clients

\* C1: for a class with ceiling N >= 1, a request is rejected by that class's
\* limiter, with status 429, exactly when it is later than the N-th request
\* of its client in the current 60-second window; so the first N are
\* admitted, the (N+1)-th is rejected, and the first request at or after the
\* window's expiry (the first of a new window) is admitted again.
C1_NthAdmittedNextRejected ==
    \A c \in Conns, class \in Classes :
        (req[c].nth[class] > 0 /\ Ceiling(class) >= 1) =>
            /\ (req[c].limitedBy = class) <=> (req[c].nth[class] > Ceiling(class))
            /\ (req[c].limitedBy = class) => req[c].status = 429

\* C1 witness: after a rejection, a request that opens a new window (at or
\* after the expiry of the previous one) has been admitted.
C1_Witness ==
    \E c \in Conns, class \in Classes :
        /\ Ceiling(class) >= 1
        /\ seen[<<class, ClientOf(c)>>].denied >= 1
        /\ seen[<<class, ClientOf(c)>>].start >= WindowMs
        /\ req[c].nth[class] = 1
        /\ req[c].limitedBy = "none"

\* C6 as claimed: the window counter of a class with ceiling N >= 1 never
\* exceeds N.
C6_CounterWithinCeiling ==
    \A k \in Keys : Ceiling(k[1]) >= 1 => store[k].hits <= Ceiling(k[1])

\* C6 amended: the requests admitted in a window never exceed N; the counter
\* counts every request of the window, admitted or rejected.
C6_AdmittedWithinCeiling ==
    \A k \in Keys :
        Ceiling(k[1]) >= 1 =>
            /\ seen[k].admitted <= Ceiling(k[1])
            /\ store[k].hits = seen[k].n

\* C6 witness: a window whose counter has passed the ceiling.
C6_Witness ==
    \E k \in Keys :
        /\ Ceiling(k[1]) >= 1
        /\ store[k].hits > Ceiling(k[1])
        /\ seen[k].admitted = Ceiling(k[1])

\* C7: a request rejected by the global or the auth limiter gets 429 and its
\* response ends there: it reaches neither the metrics timer start, nor a
\* route handler, nor the not-found handler, nor the error handler.
C7_RejectedShortCircuits ==
    \A c \in Conns :
        req[c].limitedBy # "none" =>
            /\ req[c].status = 429
            /\ req[c].pc = "responded"
            /\ ~req[c].timed
            /\ \A stage \in {"metrics", "route", "notFound", "errorHandler"} :
                  ~InTrace(req[c], stage)

\* C7 witness: a request rejected by the auth limiter, after the global
\* limiter admitted it.
C7_Witness ==
    \E c \in Conns :
        /\ req[c].limitedBy = "auth"
        /\ req[c].nth["global"] > 0
        /\ Ceiling("global") >= 1

\* A step in which the response of connection c's request is fully written.
Completes(c) == req[c].pc = "responded" /\ req'[c].pc = "none"

\* The histogram with one more observation under the labels of request r:
\* its method, its matched route (the raw path if none matched), its status.
Recorded(h, r) ==
    LET l == <<r.method, IF r.route # "" THEN r.route ELSE r.path, r.status>>
    IN  [k \in DOMAIN h \cup {l} |->
           (IF k \in DOMAIN h THEN h[k] ELSE 0) + (IF k = l THEN 1 ELSE 0)]

\* C8 as claimed: every completed request, whatever its final status, adds
\* exactly one observation, labelled with its method, route and status.
C8_EveryCompletedObserved ==
    [][\A c \in Conns : Completes(c) => hist' = Recorded(hist, req[c])]_vars

\* C8 amended: a completed request that reached the metrics middleware adds
\* exactly one observation, labelled with its method, its matched route (or
\* raw path) and its final status; a request answered before that stage
\* (429 from a limiter, 400 from the body parser, a preflight) adds none,
\* and nothing else changes the histogram.
C8_TimedCompletedObserved ==
    [][/\ \A c \in Conns :
            Completes(c) =>
                hist' = IF InTrace(req[c], "metrics")
                        THEN Recorded(hist, req[c]) ELSE hist
       /\ (\A c \in Conns : ~Completes(c)) => hist' = hist]_vars

\* C8 witness: an unmatched request and a routed one have both completed
\* and been observed.
C8_Witness ==
    /\ <<"GET", "/version", 200>> \in DOMAIN hist
    /\ \E l \in DOMAIN hist : l[3] = 404

\* C9: a class whose ceiling is 0 never rejects a request and keeps no
\* window state.
C9_ZeroNeverRejects ==
    \A k \in Keys :
        Ceiling(k[1]) = 0 =>
            /\ store[k] = NoWindow
            /\ seen[k].denied = 0
            /\ \A c \in Conns : req[c].limitedBy # k[1]

\* C9 witness: several requests in one window have passed a limiter whose
\* ceiling is 0.
C9_Witness ==
    \E k \in Keys : Ceiling(k[1]) = 0 /\ seen[k].n >= 3

\* C10: a request to /auth or /login reaches the stages behind the limiters
\* only if the global and the auth limiter both admitted it; a request to
\* any other path never runs the auth limiter and is never rejected by it.
C10_AuthLayeredOnGlobal ==
    \A c \in Conns :
        /\ (req[c].path \in {"/auth", "/login"} /\ InTrace(req[c], "metrics")) =>
              /\ InTrace(req[c], "globalLimiter")
              /\ InTrace(req[c], "authLimiter")
              /\ req[c].nth["global"] > 0
              /\ req[c].nth["auth"] > 0
              /\ req[c].limitedBy = "none"
        /\ (req[c].pc # "none" /\ req[c].path \notin {"/auth", "/login"}) =>
              /\ ~InTrace(req[c], "authLimiter")
              /\ req[c].nth["auth"] = 0
              /\ req[c].limitedBy # "auth"

\* C10 witness: a request to another route is served while its client's
\* auth window is exhausted.
C10_Witness ==
    \E c \in Conns :
        /\ req[c].path = "/version"
        /\ req[c].status = 200
        /\ Ceiling("auth") >= 1
        /\ store[<<"auth", ClientOf(c)>>].hits > Ceiling("auth")

\* The deadline at which the process is forced to exit: the earliest of the
\* grace timers started (-1 while there is none).
GraceDeadline ==
    IF pending = <<>> THEN -1
    ELSE CHOOSE d \in {pending[i].deadline : i \in DOMAIN pending} :
            \A i \in DOMAIN pending : d <= pending[i].deadline

\* The exit statuses the process can report from the current state: that of
\* the close callback once the server has drained, 1 once a timer is due.
ExitOffered ==
    (IF Alive /\ ~listening /\ pending # <<>>
        /\ \A c \in Conns : conns[c] = "closed"
     THEN {IF pending[1].err THEN 1 ELSE 0} ELSE {})
    \cup
    (IF Alive /\ \E i \in DOMAIN pending : pending[i].deadline <= now
     THEN {1} ELSE {})

\* C2 as claimed: no request enters the pipeline once the lifecycle state is
\* ShuttingDown or Closed.
C2_NoRequestAfterSignal == \A c \in Conns : ~req[c].late

\* C3 as claimed: a termination signal received while ShuttingDown changes
\* neither the lifecycle state, nor the deadline of the grace timer, nor the
\* exit status the process goes on to report.
C3_SecondSignalNoOp ==
    [][(Lifecycle = "ShuttingDown" /\ Len(pending') > Len(pending)) =>
          /\ Lifecycle' = Lifecycle
          /\ GraceDeadline' = GraceDeadline
          /\ ExitOffered' = ExitOffered]_vars

\* C4: after a termination signal the process exits once: with status 0 from
\* the close callback, the server having drained without error no later than
\* the grace deadline; with status 1 from the grace timer once it is due, or
\* from the close callback on an error; and after the exit nothing more
\* happens, so no timer fires after the clean close.
C4_ExitOnceByStatus ==
    /\ [](/\ Alive <=> exitBy = "none"
          /\ ~Alive => pending # <<>> /\ ~listening
          /\ exitCode \in {NotExited, 0, 1}
          /\ exitCode = 0 =>
                /\ exitBy = "clean"
                /\ \A c \in Conns : conns[c] = "closed"
                /\ now <= GraceDeadline
          /\ exitCode = 1 =>
                \/ exitBy = "timeout" /\ GraceDeadline <= now
                \/ exitBy = "closeError")
    /\ [][~Alive => UNCHANGED vars]_vars

\* C4 witness: the process has exited cleanly after serving a request, with
\* two signals delivered.
C4_Witness == exitCode = 0 /\ nreq > 0 /\ Len(pending) = 2

\* C5: a request in flight when the signal arrives keeps its connection until
\* its response is fully written; if it is still undelivered when the process
\* is gone, the grace timer has forced the exit, with status 1.
C5_InFlightNotCancelled ==
    /\ [](\A c \in Conns :
            (req[c].atSignal /\ ~Alive) => (exitBy = "timeout" /\ exitCode = 1))
    /\ [][\A c \in Conns :
            (req[c].atSignal /\ conns[c] = "busy") =>
                \/ conns'[c] = "busy" /\ req'[c].atSignal
                \/ req[c].pc = "responded" /\ req'[c] = NoReq]_vars

\* C5 witness: a request in flight at the signal has had its response
\* written during the grace period, and the process then exited cleanly.
C5_Witness == exitCode = 0 /\ drained >= 1

\* C18: the window is fixed, not rolling: its expiry is set by the request
\* that opens it, 60 s after that request, and later requests of the window
\* leave it there; so a throttled client is admitted again by the first
\* request at or after 60 s from the window's start, which opens a new
\* window.
C18_WindowFixedAtFirstRequest ==
    /\ \A k \in Keys :
          (Ceiling(k[1]) >= 1 /\ store[k].hits > 0) =>
              /\ store[k].resetTime = seen[k].start + WindowMs
              /\ store[k].hits = seen[k].n
    /\ \A c \in Conns, class \in Classes :
          (Ceiling(class) >= 1 /\ req[c].nth[class] = 1) =>
              req[c].limitedBy # class

\* C18 witness: a client throttled in the window opened at time 0 is
\* admitted by a request exactly 60 s after that window's start; the request
\* has opened a second window.
C18_Witness ==
    \E c \in Conns, class \in Classes :
        /\ Ceiling(class) >= 1
        /\ seen[<<class, ClientOf(c)>>].denied >= 1
        /\ seen[<<class, ClientOf(c)>>].start = WindowMs
        /\ store[<<class, ClientOf(c)>>] = [hits |-> 1, resetTime |-> 2 * WindowMs]
        /\ req[c].nth[class] = 1
        /\ req[c].pc = "responded"
        /\ req[c].status # 429

\* A step in which the chain runs for connection c's request from the body
\* parser to the end of its response.
Processes(c) == req[c].pc = "bodyParse" /\ req'[c].pc = "responded"

\* The step advances by one the global window counter of connection c's
\* client (to 1 when the step opens a new window).
CountedGlobally(c) ==
    LET k == <<"global", ClientOf(c)>>
    IN  store'[k].hits =
            IF seen[k].n = 0 \/ now >= seen[k].start + WindowMs THEN 1
            ELSE store[k].hits + 1

\* C19 as claimed: with a global ceiling N >= 1, every request to an auth
\* route advances the global window counter by one, so k such requests in a
\* window advance it by k.
C19_EveryAuthRequestCounted ==
    [][\A c \in Conns :
          (Processes(c) /\ IsAuthRoute(req[c].path) /\ Ceiling("global") >= 1) =>
              CountedGlobally(c)]_vars

\* C19 amended: a request to an auth route that reaches the limiters runs
\* the global limiter before the auth limiter; with a global ceiling
\* N >= 1 it advances the global window counter by one, whether the auth
\* limiter then rejects it or not.  A request answered before the limiters
\* (a preflight, a body the parser refuses) leaves the counter alone.
C19_AuthRequestAtLimiterCounted ==
    [][\A c \in Conns :
          (Processes(c) /\ IsAuthRoute(req[c].path)) =>
              /\ InTrace(req'[c], "authLimiter") => InTrace(req'[c], "globalLimiter")
              /\ req'[c].limitedBy = "auth" => req'[c].nth["global"] > 0
              /\ Ceiling("global") >= 1 =>
                    IF InTrace(req'[c], "globalLimiter")
                    THEN CountedGlobally(c)
                    ELSE store'[<<"global", ClientOf(c)>>] =
                             store[<<"global", ClientOf(c)>>]]_vars

\* C19 witness: a request rejected by the auth limiter is the second one
\* counted in its client's global window.
C19_Witness ==
    \E c \in Conns :
        /\ req[c].limitedBy = "auth"
        /\ Ceiling("global") >= 1
        /\ req[c].nth["global"] >= 2
        /\ store[<<"global", ClientOf(c)>>].hits = req[c].nth["global"]

\* A string with a character that is not white space.
NonBlank(v) == \E i \in DOMAIN v : v[i] \notin WhiteSpace

IsUUID(id) == Len(id) = 2 /\ id[1] = "uuid"

\* C11: the x-request-id of the response is the value of the request's
\* header, unchanged, when the header is present and not blank; otherwise
\* (header absent, empty or white space only) it is a generated UUID, which
\* no other request in flight has.
C11_HeaderReusedOrGenerated ==
    \A c \in Conns :
        req[c].pc # "none" =>
            IF req[c].incoming.present /\ NonBlank(req[c].incoming.value)
            THEN req[c].resHeader = req[c].incoming.value
            ELSE /\ IsUUID(req[c].resHeader)
                 /\ req[c].resHeader # req[c].incoming.value
                 /\ \A d \in Conns \ {c} : req[d].resHeader # req[c].resHeader

\* C11 witness: a request whose header is white space only has been answered
\* with a generated identifier.
C11_Witness ==
    \E c \in Conns :
        /\ req[c].incoming = Header(<<" ">>)
        /\ req[c].pc = "responded"
        /\ IsUUID(req[c].resHeader)

\* C12: a request that has reached a route handler, the not-found handler or
\* the error handler (after a failure of the body parser or of a route
\* handler) has a non-empty correlation identifier, and the requestId of a
\* 404 or error body is the identifier in the response's x-request-id
\* header.
C12_HandlersCarryRequestId ==
    \A c \in Conns :
        /\ (\E stage \in {"bodyParse", "route", "notFound", "errorHandler"} :
               InTrace(req[c], stage) \/ req[c].pc = stage) =>
              req[c].requestId # NoId
        /\ (InTrace(req[c], "notFound") \/ InTrace(req[c], "errorHandler")) =>
              /\ req[c].body.requestId # NoId
              /\ req[c].body.requestId = req[c].resHeader
              /\ req[c].body.requestId = req[c].requestId

\* C12 witness: the error handler has answered a request that the body
\* parser refused and that carried no x-request-id.
C12_Witness ==
    \E c \in Conns :
        /\ InTrace(req[c], "errorHandler")
        /\ ~req[c].bodyOk
        /\ ~req[c].incoming.present
        /\ IsUUID(req[c].body.requestId)

\* The stages in the order server.ts registers them.
StageOrder ==
    <<"requestId", "logging", "bodyParse", "cors", "helmet", "globalLimiter",
      "authLimiter", "metrics", "route", "notFound", "errorHandler">>

Positions ==
    [stage \in { StageOrder[i] : i \in DOMAIN StageOrder } |->
        CHOOSE i \in DOMAIN StageOrder : StageOrder[i] = stage]

Position(stage) == Positions[stage]

\* The request failed in the body parser or in its route handler.
Failed(r) ==
    \/ InTrace(r, "bodyParse") /\ r.method = "POST" /\ ~r.bodyOk
    \/ InTrace(r, "route") /\ r.throws # "none" /\ r.route # ""

\* C13: the stages a request runs follow the fixed order correlation,
\* logging, (body parser,) CORS, security headers, global limiter, auth
\* limiter, metrics timer, route handler, not-found handler, error handler:
\* correlation runs first, no stage runs before one that precedes it, a
\* request that reaches the route handlers has passed the stages before
\* them, and the error handler runs last and answers every failure.
C13_FixedStageOrder ==
    \A c \in Conns :
        LET t == req[c].trace
        IN  /\ \A i \in 1..(Len(t) - 1) : Position(t[i]) < Position(t[i + 1])
            /\ t # <<>> => t[1] = "requestId"
            /\ InTrace(req[c], "errorHandler") => t[Len(t)] = "errorHandler"
            /\ (Failed(req[c]) /\ req[c].pc = "responded") =>
                  InTrace(req[c], "errorHandler")
            /\ InTrace(req[c], "route") =>
                  /\ \A stage \in {"requestId", "logging", "cors",
                                   "globalLimiter", "metrics"} :
                        InTrace(req[c], stage)
                  /\ EnableHelmet(cfg) => InTrace(req[c], "helmet")
                  /\ IsAuthRoute(req[c].path) => InTrace(req[c], "authLimiter")

\* C13 witness: a request to an auth route has run every stage from
\* correlation to the not-found handler, security headers included.
C13_Witness ==
    \E c \in Conns :
        /\ Len(req[c].trace) = Len(StageOrder) - 1
        /\ req[c].status = 404

\* C15: the error handler answers a failure with the status the error
\* declares, or 500 if it declares none; the body has a stack exactly when
\* the tier is not production, and it always has the request's correlation
\* identifier.
C15_ErrorStatusStackAndId ==
    \A c \in Conns :
        /\ (Failed(req[c]) /\ req[c].pc = "responded") =>
              InTrace(req[c], "errorHandler")
        /\ InTrace(req[c], "errorHandler") =>
              /\ req[c].status = IF req[c].err # 0 THEN req[c].err ELSE 500
              /\ req[c].throws = "teapot" => req[c].status = 418
              /\ req[c].throws = "error" => req[c].status = 500
              /\ req[c].throws = "none" => req[c].status = 400
              /\ req[c].body.stack <=> cfg.env # "production"
              /\ req[c].body.requestId = req[c].requestId
              /\ req[c].body.requestId # NoId

\* C15 witness: in the test tier a handler's failure that declares no status
\* has been answered with 500 and a stack.
C15_Witness ==
    \E c \in Conns :
        /\ cfg.env = "test"
        /\ req[c].throws = "error"
        /\ req[c].status = 500
        /\ req[c].body.stack

\* C14: the lifecycle state only moves forward, from Running to
\* ShuttingDown and from ShuttingDown to Closed, and once a termination
\* signal has been received the process eventually exits: the server drains
\* or the 30-second grace timer elapses.
C14_ForwardAndEventuallyClosed ==
    /\ [][\/ Lifecycle' = Lifecycle
          \/ Lifecycle = "Running" /\ Lifecycle' = "ShuttingDown"
          \/ Lifecycle = "ShuttingDown" /\ Lifecycle' = "Closed"]_vars
    /\ (Lifecycle = "ShuttingDown") ~> (Lifecycle = "Closed")
    /\ [](Lifecycle = "Closed" =>
            \/ exitBy = "timeout"
            \/ \A c \in Conns : conns[c] = "closed")

\* C14 witness: the grace timer has ended the process while a request was
\* still in flight.
C14_Witness ==
    /\ Lifecycle = "Closed"
    /\ exitBy = "timeout"
    /\ \E c \in Conns : conns[c] = "busy" /\ req[c].atSignal

\* C16 as claimed: no configuration with a ceiling that is not a
\* non-negative integer is ever in use (resolution aborts instead), so no
\* limiter is built from such a ceiling and no request passes one; the port
\* is a non-negative integer as well.
C16_NoInvalidCeilingInUse ==
    /\ \A class \in Classes : Ceiling(class) # NaN /\ Ceiling(class) >= 0
    /\ cfg.port # NaN /\ cfg.port >= 0
    /\ \A c \in Conns, class \in Classes :
          req[c].nth[class] > 0 => (Ceiling(class) # NaN /\ Ceiling(class) >= 0)

\* C17 as claimed: the tier of the configuration in use is one of
\* production, development and test, and exactly one of isProduction,
\* isDevelopment, isTest holds for it.
C17_TierIsOneOfThree ==
    /\ cfg.env \in Envs
    /\ Cardinality({ p \in {"production", "development", "test"} :
                        \/ p = "production" /\ IsProduction(cfg)
                        \/ p = "development" /\ IsDevelopment(cfg)
                        \/ p = "test" /\ IsTest(cfg) }) = 1

====
